---- MODULE Spec2Model ----
(***************************************************************************)
(* Model of src/index.js: the chat handler, the orchestrator (runAgent),   *)
(* the offline responder (runOfflineDemo) and the shared History.          *)
(*                                                                         *)
(* Text is a sequence of string pieces; a user message is the sequence of  *)
(* its whitespace-separated tokens.  Every await of the source is a        *)
(* suspension point: a request's handler runs from one await to the next   *)
(* in one action, and the handlers of different requests interleave there. *)
(***************************************************************************)
EXTENDS Integers, Sequences, FiniteSets, TLC

\* ------------------------------------------------------------ bounds ----
\* number of chat requests the process receives
NumReqs == 2
\* numbers that occur in messages are in -MaxNum..MaxNum
MaxNum == 10

\* the messages handed to runOfflineDemo on its own have 1..MaxLen tokens
MaxLen == 4
\* the numbers handed to prime on its own are in -MaxPrime..MaxPrime
MaxPrime == 30

Reqs == 1..NumReqs
NumRange == (0 - MaxNum)..MaxNum

\* ------------------------------------------------------------- text -----
\* String(n) / template interpolation of a number
NumText(n) == ToString(n)

\* a token the regex (-?\d+(?:\.\d+)?) matches
IsNum(tok) == \E n \in NumRange : NumText(n) = tok

\* Number(m[1])
Number(tok) == CHOOSE n \in NumRange : NumText(n) = tok

\* String.prototype.toLowerCase on one token
LowerTok(tok) ==
  CASE tok = "Bitcoin" -> "bitcoin"
    [] tok = "BTC" -> "btc"
    [] tok = "Is" -> "is"
    [] tok = "Calculate" -> "calculate"
    [] tok = "Price" -> "price"
    [] tok = "Prime" -> "prime"
    [] OTHER -> tok

\* String.prototype.toUpperCase on one token
UpperTok(tok) ==
  CASE tok = "bitcoin" -> "BITCOIN"
    [] tok = "ethereum" -> "ETHEREUM"
    [] tok = "dogecoin" -> "DOGECOIN"
    [] OTHER -> tok

toLowerCase(text) == [i \in 1..Len(text) |-> LowerTok(text[i])]

\* the needles of the source that occur inside a token
Substrings(tok) ==
  CASE tok = "ethereum" -> {"ethereum", "eth"}
    [] tok = "primes" -> {"primes", "prime"}
    [] tok = "prices" -> {"prices", "price"}
    [] OTHER -> {tok}

\* String.prototype.includes
includes(text, needle) == \E i \in 1..Len(text) : needle \in Substrings(text[i])

\* a token the class [a-z0-9-]+ matches as a whole
IsCoinTok(tok) == tok \notin {"+", "?", "!", ""} /\ LowerTok(tok) = tok

\* the fixed texts of the source
SystemPrompt == <<"You are an AI robot agent">>
HelpText == <<"Offline demo mode is active because GROQ_API_KEY is not set.">>
FallbackNote == "[Note: Groq API call failed; you are seeing the offline/tool-based fallback response instead.]"
NoUsdPrefix == "I couldn't find a USD price for "

\* ------------------------------------------------------- local tools ----
sum(num1, num2) == num1 + num2

\* a loop that stops below the square root: for (i = 2; i < Math.sqrt(num); i++)
RECURSIVE primeLoop_belowRoot(_, _)
primeLoop_belowRoot(num, i) ==
  IF i * i >= num THEN TRUE
  ELSE IF num % i = 0 THEN FALSE
  ELSE primeLoop_belowRoot(num, i + 1)

RECURSIVE primeLoop(_, _)
primeLoop(num, i) ==
  IF i * i > num THEN TRUE
  ELSE IF num % i = 0 THEN FALSE
  ELSE primeLoop(num, i + 1)

prime(num) == IF num < 2 THEN FALSE ELSE primeLoop(num, 2)

\* ------------------------------------------------- offline responder ----
NoArgs == [none |-> TRUE]
NoToolCall == [null |-> TRUE]
IsNull(x) == "null" \in DOMAIN x \/ "none" \in DOMAIN x

parseTwoNumbersForSum(text) ==
  LET hits == {i \in 1..(Len(text) - 2) :
                 IsNum(text[i]) /\ text[i + 1] = "+" /\ IsNum(text[i + 2])}
  IN IF hits = {} THEN NoArgs
     ELSE LET i == CHOOSE j \in hits : \A k \in hits : j <= k
          IN [num1 |-> Number(text[i]), num2 |-> Number(text[i + 2])]

parseNumberForPrime(text) ==
  LET hits == {i \in 1..Len(text) : IsNum(text[i])}
  IN IF hits = {} THEN NoArgs
     ELSE LET i == CHOOSE j \in hits : \A k \in hits : j <= k
          IN [number |-> Number(text[i])]

parseCoinForPrice(text) ==
  LET t == toLowerCase(text)
      of == {i \in 1..(Len(t) - 2) :
               t[i] = "price" /\ t[i + 1] = "of" /\ IsCoinTok(t[i + 2])}
      before == {i \in 1..(Len(t) - 1) : IsCoinTok(t[i]) /\ t[i + 1] = "price"}
  IN IF includes(t, "bitcoin") \/ includes(t, "btc") THEN [coin |-> "bitcoin"]
     ELSE IF includes(t, "ethereum") \/ includes(t, "eth") THEN [coin |-> "ethereum"]
     ELSE IF of # {} THEN [coin |-> t[(CHOOSE j \in of : \A k \in of : j <= k) + 2]]
     ELSE IF before # {} THEN [coin |-> t[CHOOSE j \in before : \A k \in before : j <= k]]
     ELSE NoArgs

\* a classifier that takes every message without a sum for a price question
OfflineIntent_eagerPrice(text) ==
  IF ~IsNull(parseTwoNumbersForSum(text)) THEN "sum" ELSE "price"

\* a classifier that looks for the primality question before the sum
OfflineIntent_primeFirst(text) ==
  LET lower == toLowerCase(text)
  IN IF includes(lower, "prime") /\ ~IsNull(parseNumberForPrime(text)) THEN "prime"
     ELSE IF ~IsNull(parseTwoNumbersForSum(text)) THEN "sum"
     ELSE IF (includes(lower, "price") \/ includes(lower, "crypto")
              \/ includes(lower, "bitcoin") \/ includes(lower, "ethereum"))
             /\ ~IsNull(parseCoinForPrice(text)) THEN "price"
     ELSE "help"

\* which branch of runOfflineDemo the message takes
OfflineIntent(text) ==
  LET lower == toLowerCase(text)
  IN IF ~IsNull(parseTwoNumbersForSum(text)) THEN "sum"
     ELSE IF includes(lower, "prime") /\ ~IsNull(parseNumberForPrime(text)) THEN "prime"
     ELSE IF (includes(lower, "price") \/ includes(lower, "crypto")
              \/ includes(lower, "bitcoin") \/ includes(lower, "ethereum"))
             /\ ~IsNull(parseCoinForPrice(text)) THEN "price"
     ELSE "help"

\* the results runOfflineDemo returns without awaiting anything
OfflineSync(text) ==
  LET intent == OfflineIntent(text)
      sumArgs == parseTwoNumbersForSum(text)
      primeArgs == parseNumberForPrime(text)
  IN CASE intent = "sum" ->
            [text |-> <<"Result: ", NumText(sumArgs.num1), " + ", NumText(sumArgs.num2),
                        " = ", NumText(sum(sumArgs.num1, sumArgs.num2))>>,
             toolCall |-> [name |-> "sum", args |-> sumArgs]]
       [] intent = "prime" ->
            [text |-> <<NumText(primeArgs.number), " is ",
                        IF prime(primeArgs.number) THEN "" ELSE "not ",
                        "a prime number.">>,
             toolCall |-> [name |-> "check_prime_number", args |-> primeArgs]]
       [] OTHER -> [text |-> HelpText, toolCall |-> NoToolCall]

\* --------------------------------------------------- price source ------
\* what the fetch of getcryptoprice can come to: the request rejects, the
\* status is not ok, or the body is a mapping with or without the coin
PriceFailures == {"network error", "status not ok"}
PriceBodies == {[usd |-> 50000], NoArgs}
\* what getcryptoprice returns to runAgent: runAgent only serializes it into
\* the tool entry and never looks into it, so one answer stands for them all
ToolPrices == {[usd |-> 50000]}

\* `${coin.toUpperCase()} price: $${usd} USD` or the couldn't-find text
PriceText(coin, price) ==
  IF ~IsNull(price)
  THEN <<UpperTok(coin), " price: $", NumText(price.usd), " USD">>
  ELSE <<NoUsdPrefix, coin, ". Try: bitcoin, ethereum.">>

\* the result runOfflineDemo returns once getcryptoprice has answered
OfflinePrice(text, price) ==
  LET coinArgs == parseCoinForPrice(text)
  IN [text |-> PriceText(coinArgs.coin, price),
      toolCall |-> [name |-> "get_crypto_price", args |-> coinArgs]]

\* ---------------------------------------------------------- JSON --------
\* JSON text is either well-formed, carrying a value, or malformed
JsonText(v) == [wellFormed |-> TRUE, value |-> v]
Malformed == [wellFormed |-> FALSE, value |-> NoArgs]

\* JSON.stringify of a tool result, as the content of the tool message
JSONstringify(name, result) ==
  CASE name = "sum" -> <<NumText(result)>>
    [] name = "check_prime_number" -> <<IF result THEN "true" ELSE "false">>
    [] OTHER -> IF IsNull(result) THEN <<"{}">>
                ELSE <<"{coin:{usd:", NumText(result.usd), "}}">>

\* --------------------------------------------------- tool registry ------
availableTools == {"sum", "check_prime_number", "get_crypto_price"}

\* the tools whose executable returns a value, not a promise
SyncResult(name, args) ==
  IF name = "sum" THEN sum(args.num1, args.num2) ELSE prime(args.number)

\* ------------------------------------------------- remote provider ------
Msg(role, content, tool_calls, tool_call_id) ==
  [role |-> role, content |-> content, tool_calls |-> tool_calls,
   tool_call_id |-> tool_call_id]

ToolCallReq(id, name, arguments) ==
  [id |-> id, function |-> [name |-> name, arguments |-> arguments]]

\* the tool calls a response of the provider may carry
SumCall == ToolCallReq("call_b", "sum", JsonText([num1 |-> 1, num2 |-> 2]))
PrimeCall == ToolCallReq("call_b", "check_prime_number", JsonText([number |-> 9]))
PriceCall == ToolCallReq("call_a", "get_crypto_price", JsonText([coin |-> "bitcoin"]))
UnknownCall == ToolCallReq("call_a", "get_weather", JsonText([coin |-> "bitcoin"]))
MalformedCall == ToolCallReq("call_b", "sum", Malformed)

Contents == {<< >>, <<"reply">>}

\* response.choices[0].message of the first round-trip: plain content (which
\* may be empty), one tool call, or several tool calls
FirstMsgs ==
  {Msg("assistant", c, << >>, "none") : c \in Contents}
  \cup {Msg("assistant", << >>, <<t>>, "none") :
          t \in {PrimeCall, UnknownCall, MalformedCall}}
  \cup {Msg("assistant", << >>, <<PriceCall, SumCall>>, "none")}

\* ---------------------------------------------------- HTTP layer --------
\* req.body.message: absent, a non-string value, or a string
Messages ==
  { <<"Calculate", "1", "+", "2">>, <<"Is", "9", "prime", "?">>,
    <<"Bitcoin", "price">>, <<"hello">> }

\* runAgent uses the message as the content of the user entry only; what it
\* says matters to the fallback alone: one price question, one other message
OnlineMessages == { <<"Bitcoin", "price">>, <<"hello">> }

Bodies ==
  {[type |-> "undefined", message |-> << >>], [type |-> "number", message |-> << >>],
   [type |-> "string", message |-> << >>]}
  \cup {[type |-> "string", message |-> m] : m \in Messages}

\* a guard that only looks for a missing message
Invalid_missingOnly(b) == b.type = "undefined"

\* !message || typeof message !== "string"
Invalid(b) == b.type # "string" \/ b.message = << >>

NoBody == [type |-> "none", message |-> << >>]
NoResponse == [status |-> 0, text |-> << >>, toolCall |-> NoToolCall, error |-> << >>]
NoMsg == Msg("none", << >>, << >>, "none")

Json200(text, toolCall) ==
  [status |-> 200, text |-> text, toolCall |-> toolCall, error |-> << >>]
JsonErr(status, error) ==
  [status |-> status, text |-> << >>, toolCall |-> NoToolCall, error |-> error]

\* ------------------------------------------------------------ state -----
VARIABLES
  apiKey,       \* process.env.GROQ_API_KEY is set
  groqClient,   \* the module-level client, "null" until constructed
  clientBuilds, \* how many times new Groq(...) ran
  History,      \* the module-level transcript
  owner,        \* owner[i]: the request that pushed History[i], 0 for the system entry
  pc,           \* where the handler of each request stands
  body,         \* req.body of each request
  message,      \* runAgent's local 'message': the first response of the provider
  res,          \* the HTTP response sent for each request
  sent,         \* how many responses were sent for each request
  calls,        \* remote round-trips issued for each request
  toolRuns,     \* registry tools executed by runAgent for each request
  offlineRuns,  \* runOfflineDemo invocations for each request
  err,          \* the stage at which runAgent threw, "none" if it did not
  requested,    \* how many tool calls the first response carried
  submitted,    \* Len(History) when the latest round-trip was issued
  quote,        \* what getcryptoprice came to inside runOfflineDemo
  ran,          \* the tool calls runAgent executed for each request, in order
  called,       \* a function called on its own, with its argument
  returned      \* what that call came to

vars == <<apiKey, groqClient, clientBuilds, History, owner, pc, body, message,
          res, sent, calls, toolRuns, offlineRuns, err, requested, submitted, quote,
          ran, called, returned>>

\* the state of the server: everything but a call made on its own
serverVars == <<apiKey, groqClient, clientBuilds, History, owner, pc, body,
                message, res, sent, calls, toolRuns, offlineRuns, err,
                requested, submitted, quote, ran>>

NoQuote == [outcome |-> "none", price |-> NoArgs]
NoCall == [fn |-> "none", arg |-> NoArgs]
NoReturn == [state |-> "pending", value |-> NoArgs]

\* the server after the module has loaded
ServerInit ==
  /\ apiKey \in BOOLEAN
  /\ groqClient = "null"
  /\ clientBuilds = 0
  /\ History = <<Msg("system", SystemPrompt, << >>, "none")>>
  /\ owner = <<0>>
  /\ pc = [r \in Reqs |-> "idle"]
  /\ body = [r \in Reqs |-> NoBody]
  /\ message = [r \in Reqs |-> NoMsg]
  /\ res = [r \in Reqs |-> NoResponse]
  /\ sent = [r \in Reqs |-> 0]
  /\ calls = [r \in Reqs |-> 0]
  /\ toolRuns = [r \in Reqs |-> 0]
  /\ offlineRuns = [r \in Reqs |-> 0]
  /\ err = [r \in Reqs |-> "none"]
  /\ requested = [r \in Reqs |-> 0]
  /\ submitted = [r \in Reqs |-> 0]
  /\ quote = [r \in Reqs |-> NoQuote]
  /\ ran = [r \in Reqs |-> << >>]

Init ==
  /\ ServerInit
  /\ called = NoCall
  /\ returned = NoReturn

\* ------------------------------------------------------ HTTP layer ------
\* requests are numbered in the order in which express hands them to chatHandler
Arrives(r) == pc[r] = "idle" /\ \A q \in Reqs : q < r => pc[q] # "idle"

\* res.status(..).json(..): the handler returns
Send(r, response) ==
  /\ res' = [res EXCEPT ![r] = response]
  /\ sent' = [sent EXCEPT ![r] = @ + 1]

\* a transcript that grows at the front: unshift in place of push
Push_unshift(r, ms) ==
  /\ History' = ms \o History
  /\ owner' = [i \in 1..Len(ms) |-> r] \o owner

\* History.push(m) by request r
Push(r, ms) ==
  /\ History' = History \o ms
  /\ owner' = owner \o [i \in 1..Len(ms) |-> r]

\* the error message the final catch reports
safeMessage(stage) == <<"Error: ", stage>>

\* the fallback text returned as it is, without the note
CallOfflineDemo_noNote(r, msg, fallback) ==
  /\ offlineRuns' = [offlineRuns EXCEPT ![r] = @ + 1]
  /\ IF OfflineIntent(msg) = "price"
     THEN /\ pc' = [pc EXCEPT ![r] = "price"]
          /\ UNCHANGED <<res, sent>>
     ELSE /\ pc' = [pc EXCEPT ![r] = "done"]
          /\ LET demo == OfflineSync(msg)
             IN Send(r, Json200(demo.text, demo.toolCall))

\* runOfflineDemo(msg) up to its first await or its return, called by the
\* handler directly (fallback = FALSE) or from the catch of runAgent
CallOfflineDemo(r, msg, fallback) ==
  /\ offlineRuns' = [offlineRuns EXCEPT ![r] = @ + 1]
  /\ IF OfflineIntent(msg) = "price"
     THEN /\ pc' = [pc EXCEPT ![r] = "price"]
          /\ UNCHANGED <<res, sent>>
     ELSE /\ pc' = [pc EXCEPT ![r] = "done"]
          /\ LET demo == OfflineSync(msg)
             IN Send(r, Json200(IF fallback THEN demo.text \o <<FallbackNote>>
                                            ELSE demo.text,
                                demo.toolCall))

\* a catch that reports the error at once, without the offline fallback
CatchAgentError_noFallback(r, stage) ==
  /\ err' = [err EXCEPT ![r] = stage]
  /\ message' = [message EXCEPT ![r] = NoMsg]
  /\ pc' = [pc EXCEPT ![r] = "done"]
  /\ Send(r, JsonErr(500, safeMessage(stage)))
  /\ UNCHANGED offlineRuns

\* the catch of chatHandler: runAgent threw at the given stage
CatchAgentError(r, stage) ==
  /\ err' = [err EXCEPT ![r] = stage]
  /\ message' = [message EXCEPT ![r] = NoMsg]
  /\ CallOfflineDemo(r, body[r].message, TRUE)

\* chatHandler, a body without a usable message
Reject(r) ==
  /\ Arrives(r)
  /\ \E b \in Bodies :
       /\ Invalid(b)
       /\ body' = [body EXCEPT ![r] = b]
  /\ pc' = [pc EXCEPT ![r] = "done"]
  /\ Send(r, JsonErr(400, <<"Missing 'message' field in request body.">>))
  /\ UNCHANGED <<apiKey, groqClient, clientBuilds, History, owner, message,
                 calls, toolRuns, offlineRuns, err, requested, submitted, quote, ran,
                 called, returned>>

\* an offline mode that records the message in the transcript
OfflineMode_records(r) ==
  /\ Arrives(r)
  /\ ~apiKey
  /\ \E b \in Bodies :
       /\ ~Invalid(b)
       /\ body' = [body EXCEPT ![r] = b]
       /\ Push(r, <<Msg("user", b.message, << >>, "none")>>)
       /\ CallOfflineDemo(r, b.message, FALSE)
  /\ UNCHANGED <<apiKey, groqClient, clientBuilds, message,
                 calls, toolRuns, err, requested, submitted, quote, ran,
                 called, returned>>

\* chatHandler, no API key: the offline demo answers
OfflineMode(r) ==
  /\ Arrives(r)
  /\ ~apiKey
  /\ \E b \in Bodies :
       /\ ~Invalid(b)
       /\ body' = [body EXCEPT ![r] = b]
       /\ CallOfflineDemo(r, b.message, FALSE)
  /\ UNCHANGED <<apiKey, groqClient, clientBuilds, History, owner, message,
                 calls, toolRuns, err, requested, submitted, quote, ran,
                 called, returned>>

\* getcryptoprice answered inside runOfflineDemo
PriceAnswer(r) ==
  /\ pc[r] = "price"
  /\ \E price \in PriceBodies :
       LET demo == OfflinePrice(body[r].message, price)
       IN /\ quote' = [quote EXCEPT ![r] = [outcome |-> "answered", price |-> price]]
          /\ Send(r, Json200(IF err[r] # "none"
                                  THEN demo.text \o <<FallbackNote>>
                                  ELSE demo.text,
                                  demo.toolCall))
  /\ pc' = [pc EXCEPT ![r] = "done"]
  /\ UNCHANGED <<apiKey, groqClient, clientBuilds, History, owner, body, message,
                 calls, toolRuns, offlineRuns, err, requested, submitted, ran,
                 called, returned>>

\* a price failure answered with the couldn't-find text
PriceThrows_degraded(r) ==
  /\ pc[r] = "price"
  /\ \E f \in PriceFailures :
       quote' = [quote EXCEPT ![r] = [outcome |-> "threw", price |-> NoArgs]]
  /\ LET demo == OfflinePrice(body[r].message, NoArgs)
     IN Send(r, Json200(IF err[r] # "none" THEN demo.text \o <<FallbackNote>>
                                           ELSE demo.text,
                        demo.toolCall))
  /\ pc' = [pc EXCEPT ![r] = "done"]
  /\ UNCHANGED <<apiKey, groqClient, clientBuilds, History, owner, body, message,
                 calls, toolRuns, offlineRuns, err, requested, submitted, ran,
                 called, returned>>

\* a failure of the offline responder that is swallowed: no response is sent
PriceThrows_unanswered(r) ==
  /\ pc[r] = "price"
  /\ \E f \in PriceFailures :
       quote' = [quote EXCEPT ![r] = [outcome |-> "threw", price |-> NoArgs]]
  /\ pc' = [pc EXCEPT ![r] = "done"]
  /\ UNCHANGED <<apiKey, groqClient, clientBuilds, History, owner, body, message,
                 res, sent, calls, toolRuns, offlineRuns, err, requested,
                 submitted, ran, called, returned>>

\* getcryptoprice threw inside runOfflineDemo
PriceThrows(r) ==
  /\ pc[r] = "price"
  /\ \E f \in PriceFailures :
       quote' = [quote EXCEPT ![r] = [outcome |-> "threw", price |-> NoArgs]]
  /\ Send(r, JsonErr(500, IF err[r] # "none" THEN safeMessage(err[r])
                                          ELSE <<"Offline demo failed.">>))
  /\ pc' = [pc EXCEPT ![r] = "done"]
  /\ UNCHANGED <<apiKey, groqClient, clientBuilds, History, owner, body, message,
                 calls, toolRuns, offlineRuns, err, requested, submitted, ran,
                 called, returned>>

\* ---------------------------------------------------- orchestrator -----
\* a client constructed anew for every run
getGroqClient_perRun ==
  IF ~apiKey THEN UNCHANGED <<groqClient, clientBuilds>>
  ELSE /\ groqClient' = "client"
       /\ clientBuilds' = clientBuilds + 1

\* getGroqClient(): returns the client it has, none without a key, and
\* otherwise constructs the client and keeps it
getGroqClient ==
  IF groqClient # "null" THEN UNCHANGED <<groqClient, clientBuilds>>
  ELSE IF ~apiKey THEN UNCHANGED <<groqClient, clientBuilds>>
  ELSE /\ groqClient' = "client"
       /\ clientBuilds' = clientBuilds + 1

\* a runAgent that waits until no other request is being handled
RunAgent_serialized(r) ==
  /\ Arrives(r)
  /\ \A q \in Reqs : pc[q] \in {"idle", "done"}
  /\ apiKey
  /\ \E b \in Bodies :
       /\ ~Invalid(b)
       /\ b.message \in OnlineMessages
       /\ body' = [body EXCEPT ![r] = b]
       /\ Push(r, <<Msg("user", b.message, << >>, "none")>>)
  /\ getGroqClient
  /\ submitted' = [submitted EXCEPT ![r] = Len(History')]
  /\ calls' = [calls EXCEPT ![r] = @ + 1]
  /\ pc' = [pc EXCEPT ![r] = "first"]
  /\ UNCHANGED <<apiKey, message, res, sent, toolRuns, offlineRuns, err, requested, quote, ran,
                 called, returned>>

\* chatHandler with a key: runAgent up to the await of the first round-trip
RunAgent(r) ==
  /\ Arrives(r)
  /\ apiKey
  /\ \E b \in Bodies :
       /\ ~Invalid(b)
       /\ b.message \in OnlineMessages
       /\ body' = [body EXCEPT ![r] = b]
       /\ Push(r, <<Msg("user", b.message, << >>, "none")>>)
  /\ getGroqClient
  /\ submitted' = [submitted EXCEPT ![r] = Len(History')]
  /\ calls' = [calls EXCEPT ![r] = @ + 1]
  /\ pc' = [pc EXCEPT ![r] = "first"]
  /\ UNCHANGED <<apiKey, message, res, sent, toolRuns, offlineRuns, err, requested, quote, ran,
                 called, returned>>

\* a failed first round-trip issued again
FirstFails_retry(r) ==
  /\ pc[r] = "first"
  /\ calls[r] < 3
  /\ calls' = [calls EXCEPT ![r] = @ + 1]
  /\ UNCHANGED <<apiKey, groqClient, clientBuilds, History, owner, pc, body, message,
                 res, sent, toolRuns, offlineRuns, err, requested, submitted, quote, ran,
                 called, returned>>

\* the first round-trip rejects, or its response has no choices[0].message
FirstFails(r) ==
  /\ pc[r] = "first"
  /\ CatchAgentError(r, "first round-trip")
  /\ UNCHANGED <<apiKey, groqClient, clientBuilds, History, owner, body,
                 calls, toolRuns, requested, submitted, quote, ran,
                 called, returned>>

\* the first response carries no tool call: a normal assistant reply
FirstPlain(r) ==
  /\ pc[r] = "first"
  /\ \E m \in FirstMsgs :
       /\ m.tool_calls = << >>
       /\ requested' = [requested EXCEPT ![r] = Len(m.tool_calls)]
       /\ message' = [message EXCEPT ![r] = NoMsg]
       /\ IF m.content # << >>
          THEN Push(r, <<Msg("assistant", m.content, << >>, "none")>>)
          ELSE UNCHANGED <<History, owner>>
       /\ Send(r, Json200(m.content, NoToolCall))
  /\ pc' = [pc EXCEPT ![r] = "done"]
  /\ UNCHANGED <<apiKey, groqClient, clientBuilds, body, calls, toolRuns,
                 offlineRuns, err, submitted, quote, ran,
                 called, returned>>

\* JSON.parse(argsJson) or the call of availableTools[name] throws
ToolCallThrows(m) ==
  LET toolCall == m.tool_calls[1]
  IN \/ ~toolCall.function.arguments.wellFormed
     \/ toolCall.function.name \notin availableTools

\* the first response carries tool calls and the first one cannot be run
FirstToolThrows(r) ==
  /\ pc[r] = "first"
  /\ \E m \in FirstMsgs :
       /\ m.tool_calls # << >>
       /\ ToolCallThrows(m)
       /\ requested' = [requested EXCEPT ![r] = Len(m.tool_calls)]
  /\ CatchAgentError(r, "tool call")
  /\ UNCHANGED <<apiKey, groqClient, clientBuilds, History, owner, body,
                 calls, toolRuns, submitted, quote, ran,
                 called, returned>>

\* the tool request pushed before the tool is called
FirstTool_pushFirst(r) ==
  /\ pc[r] = "first"
  /\ \E m \in FirstMsgs :
       /\ m.tool_calls # << >>
       /\ ~ToolCallThrows(m)
       /\ requested' = [requested EXCEPT ![r] = Len(m.tool_calls)]
       /\ message' = [message EXCEPT ![r] = m]
       /\ ran' = [ran EXCEPT ![r] = Append(@, m.tool_calls[1])]
       /\ Push(r, <<m>>)
  /\ toolRuns' = [toolRuns EXCEPT ![r] = @ + 1]
  /\ pc' = [pc EXCEPT ![r] = "tool"]
  /\ UNCHANGED <<apiKey, groqClient, clientBuilds, body,
                 res, sent, calls, offlineRuns, err, submitted, quote,
                 called, returned>>

\* every requested tool call run, not only the first
FirstTool_everyCall(r) ==
  /\ pc[r] = "first"
  /\ \E m \in FirstMsgs :
       /\ m.tool_calls # << >>
       /\ ~ToolCallThrows(m)
       /\ requested' = [requested EXCEPT ![r] = Len(m.tool_calls)]
       /\ message' = [message EXCEPT ![r] = m]
       /\ ran' = [ran EXCEPT ![r] = @ \o m.tool_calls]
       /\ toolRuns' = [toolRuns EXCEPT ![r] = @ + Len(m.tool_calls)]
  /\ pc' = [pc EXCEPT ![r] = "tool"]
  /\ UNCHANGED <<apiKey, groqClient, clientBuilds, History, owner, body,
                 res, sent, calls, offlineRuns, err, submitted, quote,
                 called, returned>>

\* the first response carries tool calls: tool(args) is called and awaited
FirstTool(r) ==
  /\ pc[r] = "first"
  /\ \E m \in FirstMsgs :
       /\ m.tool_calls # << >>
       /\ ~ToolCallThrows(m)
       /\ requested' = [requested EXCEPT ![r] = Len(m.tool_calls)]
       /\ message' = [message EXCEPT ![r] = m]
       /\ ran' = [ran EXCEPT ![r] = Append(@, m.tool_calls[1])]
  /\ toolRuns' = [toolRuns EXCEPT ![r] = @ + 1]
  /\ pc' = [pc EXCEPT ![r] = "tool"]
  /\ UNCHANGED <<apiKey, groqClient, clientBuilds, History, owner, body,
                 res, sent, calls, offlineRuns, err, submitted, quote,
                 called, returned>>

\* the two pushes in the opposite order: the tool result first
ToolMessages_resultFirst(m, result) ==
  LET toolCall == m.tool_calls[1]
  IN <<Msg("tool", JSONstringify(toolCall.function.name, result), << >>,
           toolCall.id), m>>

\* the messages runAgent pushes once the tool has returned
ToolMessages(m, result) ==
  LET toolCall == m.tool_calls[1]
  IN <<m, Msg("tool", JSONstringify(toolCall.function.name, result), << >>,
              toolCall.id)>>

\* the two pushes with a suspension point between them
ToolReturns_suspended(r) ==
  /\ pc[r] = "tool"
  /\ LET toolCall == message[r].tool_calls[1]
         name == toolCall.function.name
         args == toolCall.function.arguments.value
     IN \E price \in ToolPrices :
          LET result == IF name = "get_crypto_price" THEN price
                        ELSE SyncResult(name, args)
              both == ToolMessages(message[r], result)
          IN IF \E i \in 1..Len(History) : owner[i] = r /\ History[i] = message[r]
             THEN /\ Push(r, <<both[2]>>)
                  /\ submitted' = [submitted EXCEPT ![r] = Len(History')]
                  /\ calls' = [calls EXCEPT ![r] = @ + 1]
                  /\ pc' = [pc EXCEPT ![r] = "second"]
             ELSE /\ Push(r, <<both[1]>>)
                  /\ UNCHANGED <<submitted, calls, pc>>
  /\ UNCHANGED <<apiKey, groqClient, clientBuilds, body, message, res, sent,
                 toolRuns, offlineRuns, err, requested, quote, ran,
                 called, returned>>

\* the second round-trip issued ahead of the two pushes
ToolReturns_submitFirst(r) ==
  /\ pc[r] = "tool"
  /\ LET toolCall == message[r].tool_calls[1]
         name == toolCall.function.name
         args == toolCall.function.arguments.value
     IN IF name = "get_crypto_price"
        THEN \E price \in ToolPrices : Push(r, ToolMessages(message[r], price))
        ELSE Push(r, ToolMessages(message[r], SyncResult(name, args)))
  /\ submitted' = [submitted EXCEPT ![r] = Len(History)]
  /\ calls' = [calls EXCEPT ![r] = @ + 1]
  /\ pc' = [pc EXCEPT ![r] = "second"]
  /\ UNCHANGED <<apiKey, groqClient, clientBuilds, body, message, res, sent,
                 toolRuns, offlineRuns, err, requested, quote, ran,
                 called, returned>>

\* await tool(args) resumes with a result: both pushes, then the second round-trip
ToolReturns(r) ==
  /\ pc[r] = "tool"
  /\ LET toolCall == message[r].tool_calls[1]
         name == toolCall.function.name
         args == toolCall.function.arguments.value
     IN IF name = "get_crypto_price"
        THEN \E price \in ToolPrices : Push(r, ToolMessages(message[r], price))
        ELSE Push(r, ToolMessages(message[r], SyncResult(name, args)))
  /\ submitted' = [submitted EXCEPT ![r] = Len(History')]
  /\ calls' = [calls EXCEPT ![r] = @ + 1]
  /\ pc' = [pc EXCEPT ![r] = "second"]
  /\ UNCHANGED <<apiKey, groqClient, clientBuilds, body, message, res, sent,
                 toolRuns, offlineRuns, err, requested, quote, ran,
                 called, returned>>

\* the failure of the tool handed to the provider in a second round-trip
ToolFails_fedBack(r) ==
  /\ pc[r] = "tool"
  /\ message[r].tool_calls[1].function.name = "get_crypto_price"
  /\ \E f \in PriceFailures : err' = [err EXCEPT ![r] = "tool execution"]
  /\ submitted' = [submitted EXCEPT ![r] = Len(History)]
  /\ calls' = [calls EXCEPT ![r] = @ + 1]
  /\ pc' = [pc EXCEPT ![r] = "second"]
  /\ UNCHANGED <<apiKey, groqClient, clientBuilds, History, owner, body,
                 message, res, sent, toolRuns, offlineRuns, requested, quote, ran,
                 called, returned>>

\* await tool(args) rejects: getcryptoprice threw
ToolFails(r) ==
  /\ pc[r] = "tool"
  /\ message[r].tool_calls[1].function.name = "get_crypto_price"
  /\ \E f \in PriceFailures : CatchAgentError(r, "tool execution")
  /\ UNCHANGED <<apiKey, groqClient, clientBuilds, History, owner, body,
                 calls, toolRuns, requested, submitted, quote, ran,
                 called, returned>>

\* the second round-trip rejects, or its response has no choices[0].message
SecondFails(r) ==
  /\ pc[r] = "second"
  /\ CatchAgentError(r, "second round-trip")
  /\ UNCHANGED <<apiKey, groqClient, clientBuilds, History, owner, body,
                 calls, toolRuns, requested, submitted, quote, ran,
                 called, returned>>

\* the metadata taken from the last requested tool call
SecondReplies_lastCall(r) ==
  /\ pc[r] = "second"
  /\ \E content \in Contents :
       LET toolCall == message[r].tool_calls[Len(message[r].tool_calls)]
       IN /\ IF content # << >>
             THEN Push(r, <<Msg("assistant", content, << >>, "none")>>)
             ELSE UNCHANGED <<History, owner>>
          /\ Send(r, Json200(content,
                             [name |-> toolCall.function.name,
                              args |-> toolCall.function.arguments.value]))
  /\ message' = [message EXCEPT ![r] = NoMsg]
  /\ pc' = [pc EXCEPT ![r] = "done"]
  /\ UNCHANGED <<apiKey, groqClient, clientBuilds, body, calls,
                 toolRuns, offlineRuns, err, requested, submitted, quote, ran,
                 called, returned>>

\* a final reply pushed whatever its content is
SecondReplies_alwaysPush(r) ==
  /\ pc[r] = "second"
  /\ \E content \in Contents :
       LET toolCall == message[r].tool_calls[1]
       IN /\ Push(r, <<Msg("assistant", content, << >>, "none")>>)
          /\ Send(r, Json200(content,
                             [name |-> toolCall.function.name,
                              args |-> toolCall.function.arguments.value]))
  /\ message' = [message EXCEPT ![r] = NoMsg]
  /\ pc' = [pc EXCEPT ![r] = "done"]
  /\ UNCHANGED <<apiKey, groqClient, clientBuilds, body, calls,
                 toolRuns, offlineRuns, err, requested, submitted, quote, ran,
                 called, returned>>

\* the second response: the final assistant reply
SecondReplies(r) ==
  /\ pc[r] = "second"
  /\ \E content \in Contents :
       LET toolCall == message[r].tool_calls[1]
       IN /\ IF content # << >>
             THEN Push(r, <<Msg("assistant", content, << >>, "none")>>)
             ELSE UNCHANGED <<History, owner>>
          /\ Send(r, Json200(content,
                             [name |-> toolCall.function.name,
                              args |-> toolCall.function.arguments.value]))
  /\ message' = [message EXCEPT ![r] = NoMsg]
  /\ pc' = [pc EXCEPT ![r] = "done"]
  /\ UNCHANGED <<apiKey, groqClient, clientBuilds, body, calls,
                 toolRuns, offlineRuns, err, requested, submitted, quote, ran,
                 called, returned>>

\* ------------------------------------------- functions on their own ----
\* the tokens of the messages handed to runOfflineDemo on its own
Words == {"9", "+", "prime", "Bitcoin", "price", "of", "hello", "crypto"}
TestMessages == UNION {[1..n -> Words] : n \in 1..MaxLen}
PrimeRange == (0 - MaxPrime)..MaxPrime

Calls ==
  {[fn |-> "runOfflineDemo", arg |-> m] : m \in TestMessages}
  \cup {[fn |-> "prime", arg |-> n] : n \in PrimeRange}

PureInit ==
  /\ ServerInit
  /\ called \in Calls
  /\ returned = NoReturn

\* runOfflineDemo(userMessage) returns without awaiting anything
DemoReturns ==
  /\ called.fn = "runOfflineDemo" /\ returned.state = "pending"
  /\ OfflineIntent(called.arg) # "price"
  /\ returned' = [state |-> "returned", value |-> OfflineSync(called.arg)]
  /\ UNCHANGED <<serverVars, called>>

\* runOfflineDemo(userMessage) awaits getcryptoprice, which answers
DemoPriceReturns ==
  /\ called.fn = "runOfflineDemo" /\ returned.state = "pending"
  /\ OfflineIntent(called.arg) = "price"
  /\ \E price \in PriceBodies :
       returned' = [state |-> "returned", value |-> OfflinePrice(called.arg, price)]
  /\ UNCHANGED <<serverVars, called>>

\* runOfflineDemo(userMessage) awaits getcryptoprice, which throws
DemoPriceThrows ==
  /\ called.fn = "runOfflineDemo" /\ returned.state = "pending"
  /\ OfflineIntent(called.arg) = "price"
  /\ \E f \in PriceFailures : returned' = [state |-> "threw", value |-> NoArgs]
  /\ UNCHANGED <<serverVars, called>>

\* prime(num) returns
PrimeReturns ==
  /\ called.fn = "prime" /\ returned.state = "pending"
  /\ returned' = [state |-> "returned", value |-> prime(called.arg)]
  /\ UNCHANGED <<serverVars, called>>

PureNext == DemoReturns \/ DemoPriceReturns \/ DemoPriceThrows \/ PrimeReturns

PureSpec == PureInit /\ [][PureNext]_vars

\* ------------------------------------------------------------- spec -----
Next ==
  \E r \in Reqs :
    \/ Reject(r)
    \/ OfflineMode(r)
    \/ PriceAnswer(r)
    \/ PriceThrows(r)
    \/ RunAgent(r)
    \/ FirstFails(r)
    \/ FirstPlain(r)
    \/ FirstToolThrows(r)
    \/ FirstTool(r)
    \/ ToolReturns(r)
    \/ ToolFails(r)
    \/ SecondFails(r)
    \/ SecondReplies(r)

Spec == Init /\ [][Next]_vars

\* the handler of request r resumes from an await: the provider call, the
\* tool call or the price lookup it waits for has returned or failed
Resumes(r) ==
  \/ PriceAnswer(r)
  \/ PriceThrows(r)
  \/ FirstFails(r)
  \/ FirstPlain(r)
  \/ FirstToolThrows(r)
  \/ FirstTool(r)
  \/ ToolReturns(r)
  \/ ToolFails(r)
  \/ SecondFails(r)
  \/ SecondReplies(r)

\* every call a handler awaits eventually returns or fails, and the event
\* loop then resumes the handler
FairSpec == Spec /\ \A r \in Reqs : WF_vars(Resumes(r))

\* ----------------------------------------------------------- claims ----
IsPrefix(s, t) == Len(s) <= Len(t) /\ \A i \in 1..Len(s) : s[i] = t[i]

\* the entries of the transcript that request r pushed
Pushed(r) == {i \in 1..Len(History) : owner[i] = r}
PushedAs(r, role) ==
  {i \in 1..Len(History) : owner[i] = r /\ History[i].role = role}

\* the assistant entries that carry tool calls
IsToolRequest(m) == m.role = "assistant" /\ m.tool_calls # << >>

\* C1: the first entry of the transcript is always the system instruction,
\* and every step leaves the old transcript as a prefix of the new one: no
\* entry is removed, reordered or rolled back, also not when a request fails.
C1_AppendOnly ==
  /\ [](Len(History) >= 1 /\ History[1] = Msg("system", SystemPrompt, << >>, "none"))
  /\ [][IsPrefix(History, History')]_vars

\* a request failed at its second round-trip and the three entries it had
\* pushed are still there, behind the entries of another request
C1_Witness ==
  \E r \in Reqs :
    /\ pc[r] = "done"
    /\ err[r] = "second round-trip"
    /\ Cardinality(Pushed(r)) = 3
    /\ \E q \in Reqs \ {r} : \E i \in Pushed(q) : \E j \in Pushed(r) : i < j

\* C2: every tool entry of the transcript carries the id of a tool call that
\* an assistant entry earlier in the transcript requested.
C2_ToolAnswersRequest ==
  \A i \in 1..Len(History) :
    History[i].role = "tool" =>
      \E j \in 1..(i - 1) :
        /\ IsToolRequest(History[j])
        /\ \E k \in 1..Len(History[j].tool_calls) :
             History[j].tool_calls[k].id = History[i].tool_call_id

\* two requests have each pushed a tool entry, with different ids
C2_Witness ==
  \E i, j \in 1..Len(History) :
    /\ History[i].role = "tool" /\ History[j].role = "tool"
    /\ owner[i] # owner[j]
    /\ History[i].tool_call_id # History[j].tool_call_id

\* the stages of runAgent at which the tool invocation itself throws
ToolFailures == {"tool call", "tool execution"}

\* request r carried a string message, a key was set, and runAgent is over
AgentOver(r) ==
  /\ apiKey
  /\ body[r].type = "string" /\ body[r].message # << >>
  /\ pc[r] \in {"price", "done"}

C4_AtMostTwoRoundTrips ==
  \A r \in Reqs :
    /\ calls[r] <= 2
    /\ (AgentOver(r) /\ err[r] = "none" /\ requested[r] = 0) => calls[r] = 1
    /\ (AgentOver(r) /\ requested[r] > 0 /\ err[r] \notin ToolFailures) => calls[r] = 2
    /\ err[r] = "first round-trip" => calls[r] = 1
    /\ err[r] = "second round-trip" => calls[r] = 2
    /\ err[r] \in ToolFailures => calls[r] = 1

\* one request ended after a failed first round-trip with one round-trip,
\* another ended after a tool call with two
C4_Witness ==
  \E r, q \in Reqs :
    /\ pc[r] = "done" /\ err[r] = "first round-trip" /\ calls[r] = 1
    /\ pc[q] = "done" /\ err[q] = "none" /\ requested[q] > 0 /\ calls[q] = 2

\* the messages of the claims
SumMessage == <<"Calculate", "1", "+", "2">>
PrimeMessage == <<"Is", "9", "prime", "?">>
PriceMessage == <<"Bitcoin", "price">>
HelpMessage == <<"hello">>

HasNote(text) == \E i \in 1..Len(text) : text[i] = FallbackNote

\* what runOfflineDemo returns for the message of request r
OfflineResult(r) ==
  IF quote[r].outcome = "answered"
  THEN OfflinePrice(body[r].message, quote[r].price)
  ELSE OfflineSync(body[r].message)

C6_DoubleFailure ==
  \A r \in Reqs :
    (AgentOver(r) /\ pc[r] = "done") =>
      /\ res[r].status \in {200, 500}
      /\ res[r].status = 500 <=> (err[r] # "none" /\ quote[r].outcome = "threw")

\* a tool failure followed by a fallback failure gave 500, while a round-trip
\* failure followed by a working fallback gave 200
C6_Witness ==
  \E r, q \in Reqs :
    /\ pc[r] = "done" /\ err[r] = "tool execution" /\ quote[r].outcome = "threw"
    /\ res[r].status = 500
    /\ pc[q] = "done" /\ err[q] = "first round-trip" /\ res[q].status = 200

\* request r sent "Bitcoin price", the provider could not be reached, and the
\* handler has answered
UnreachableBitcoinPrice(r) ==
  /\ apiKey
  /\ body[r].type = "string" /\ body[r].message = PriceMessage
  /\ err[r] = "first round-trip"
  /\ pc[r] = "done"

\* C7 as stated: with the provider unreachable "Bitcoin price" always gets
\* status 200, with the price text or the couldn't-find text.
C7_Original ==
  \A r \in Reqs :
    UnreachableBitcoinPrice(r) =>
      /\ res[r].status = 200
      /\ \/ res[r].text = PriceText("bitcoin", quote[r].price) \o <<FallbackNote>>
         \/ res[r].text = PriceText("bitcoin", NoArgs) \o <<FallbackNote>>

\* C7 amended: with the provider unreachable "Bitcoin price" gets 200 with
\* "BITCOIN price: $" and the value when the price source answers with a usd
\* value, 200 with the couldn't-find text when it answers without one, and
\* 500 when the price source is unavailable.
C7_Amended ==
  \A r \in Reqs :
    UnreachableBitcoinPrice(r) =>
      /\ quote[r].outcome \in {"answered", "threw"}
      /\ quote[r].outcome = "threw" => res[r].status = 500
      /\ (quote[r].outcome = "answered" /\ ~IsNull(quote[r].price)) =>
           /\ res[r].status = 200
           /\ res[r].text = <<"BITCOIN", " price: $", NumText(quote[r].price.usd),
                              " USD", FallbackNote>>
      /\ (quote[r].outcome = "answered" /\ IsNull(quote[r].price)) =>
           /\ res[r].status = 200
           /\ res[r].text = <<NoUsdPrefix, "bitcoin", ". Try: bitcoin, ethereum.",
                              FallbackNote>>

\* the price source failed for one such request and answered for another
C7_Witness ==
  \E r, q \in Reqs :
    /\ UnreachableBitcoinPrice(r) /\ quote[r].outcome = "threw"
    /\ UnreachableBitcoinPrice(q) /\ quote[q].outcome = "answered"

\* C8: the offline responder returns at once with a 200 result for the sum,
\* primality and no-match messages; it fails only for the price message, when
\* the price lookup fails; without a key only the price message can get 500.
C8_OfflineFailsOnlyOnPrice ==
  \A r \in Reqs :
    /\ (offlineRuns[r] > 0 /\ body[r].message \in {SumMessage, PrimeMessage, HelpMessage}) =>
         /\ pc[r] = "done"
         /\ quote[r].outcome = "none"
         /\ res[r].status = 200
    /\ quote[r].outcome = "threw" => body[r].message = PriceMessage
    /\ (~apiKey /\ res[r].status = 500) =>
         /\ body[r].message = PriceMessage
         /\ quote[r].outcome = "threw"

\* without a key, the price message got 500 and the primality message got 200
C8_Witness ==
  \E r, q \in Reqs :
    /\ ~apiKey
    /\ body[r].message = PriceMessage /\ res[r].status = 500
    /\ body[q].message = PrimeMessage /\ res[q].status = 200

\* C9: a request without a message, or with a message that is no string, is
\* answered 400 and has no effect: it pushed nothing, and no round-trip, no
\* offline responder run, no tool run and no price lookup was made for it.
C9_RejectedWithoutEffect ==
  \A r \in Reqs :
    body[r].type \in {"undefined", "number"} =>
      /\ pc[r] = "done"
      /\ res[r].status = 400
      /\ sent[r] = 1
      /\ Pushed(r) = {}
      /\ calls[r] = 0
      /\ offlineRuns[r] = 0
      /\ toolRuns[r] = 0
      /\ quote[r].outcome = "none"

\* a non-string message was rejected while another request was under way
C9_Witness ==
  \E r, q \in Reqs :
    /\ body[r].type = "number" /\ res[r].status = 400
    /\ pc[q] = "second"

\* C10: without a key the transcript stays the single system entry, no client
\* is built and no round-trip is issued; and no step of the offline responder,
\* in offline mode or as the fallback, changes the transcript.
C10_OnlyOrchestratorMutates ==
  /\ [](~apiKey =>
          /\ History = <<Msg("system", SystemPrompt, << >>, "none")>>
          /\ groqClient = "null"
          /\ \A r \in Reqs : calls[r] = 0)
  /\ [][\A r \in Reqs :
          (offlineRuns'[r] # offlineRuns[r] \/ (pc[r] = "price" /\ pc'[r] # "price"))
            => History' = History]_vars

\* without a key every request has been answered by the offline responder,
\* one of them after a price lookup
C10_Witness ==
  /\ ~apiKey
  /\ \A r \in Reqs : pc[r] = "done" /\ offlineRuns[r] = 1
  /\ \E r \in Reqs : quote[r].outcome = "answered"

\* request r is suspended at an await of runAgent
Suspended(r) == pc[r] \in {"first", "tool", "second"}

\* C11: nothing guards the transcript: while a request is suspended at an
\* await of runAgent the next request can start runAgent and push its user
\* entry, and what is submitted for a request is the shared transcript up to
\* the request's latest entry, whoever pushed the entries before it.  The
\* witness is the corrupted order this makes reachable.
C11_NoConcurrencyGuard ==
  \A r \in Reqs :
    /\ Suspended(r) =>
         \A q \in Reqs : (apiKey /\ Arrives(q)) => ENABLED RunAgent(q)
    /\ pc[r] \in {"first", "second"} =>
         /\ submitted[r] = Len(History) \/ owner[submitted[r] + 1] # r
         /\ owner[submitted[r]] = r

\* two user entries are adjacent, pushed by two requests that were both in
\* flight; the reply of the first comes after the user entry of the second,
\* and what was submitted for the second holds the user entry of the first
C11_Witness ==
  \E r, q \in Reqs : \E i \in 1..(Len(History) - 1) :
    /\ r # q
    /\ History[i].role = "user" /\ owner[i] = r
    /\ History[i + 1].role = "user" /\ owner[i + 1] = q
    /\ \E k \in Pushed(r) :
         k > i + 1 /\ History[k].role = "assistant" /\ History[k].tool_calls = << >>
    /\ pc[q] = "first" /\ submitted[q] = i + 1


\* the tool requests a request's transcript entries carry
Honoured(r) ==
  {i \in 1..Len(History) : owner[i] = r /\ IsToolRequest(History[i])}

Orchestrated(r) == calls[r] > 0

\* C14: the provider client is constructed at most once; it exists exactly
\* when some request has entered runAgent, which happens only with a key; every
\* round-trip is issued while that one client exists; and without a key no
\* client is ever constructed.
C14_ClientBuiltOnce ==
  /\ clientBuilds <= 1
  /\ groqClient = "client" <=> clientBuilds = 1
  /\ clientBuilds = 1 <=> \E r \in Reqs : Orchestrated(r)
  /\ \A r \in Reqs : Orchestrated(r) => (apiKey /\ Pushed(r) # {})
  /\ ~apiKey => (clientBuilds = 0 /\ groqClient = "null")

\* two requests have entered runAgent and one client was constructed
C14_Witness ==
  \E r, q \in Reqs :
    /\ r # q
    /\ Orchestrated(r) /\ Orchestrated(q)
    /\ pc[r] = "done" /\ pc[q] \in {"first", "second"}
    /\ clientBuilds = 1 /\ groqClient = "client"


\* the patterns of the three intents, read off a message
HasWord(text, w) == \E i \in 1..Len(text) : w \in Substrings(LowerTok(text[i]))
HasNumber(text) == \E i \in 1..Len(text) : IsNum(text[i])
SumAt(text, i) ==
  /\ i + 2 <= Len(text)
  /\ IsNum(text[i]) /\ text[i + 1] = "+" /\ IsNum(text[i + 2])
MatchesSum(text) == \E i \in 1..Len(text) : SumAt(text, i)
MatchesPrime(text) == HasWord(text, "prime") /\ HasNumber(text)
HasCoinWord(text) ==
  \E w \in {"price", "crypto", "bitcoin", "ethereum"} : HasWord(text, w)
MatchesPrice(text) == HasCoinWord(text) /\ ~IsNull(parseCoinForPrice(text))

\* n has no divisor from 2 to n - 1
NoDivisor(n) == \A d \in 2..(n - 1) : n % d # 0

\* C15: runOfflineDemo takes the first intent that matches, in the order sum,
\* primality, price, none: a message with the sum pattern gets the sum result
\* whatever else it contains; a message without it that contains "prime" and
\* a number gets the primality result whatever coin word it contains; a
\* message with neither gets the price lookup when it has a coin word and a
\* coin; every other message gets the help text with toolCall null.
C15_FirstMatchOrder ==
  (called.fn = "runOfflineDemo" /\ returned.state # "pending") =>
    LET m == called.arg
        v == returned.value
    IN /\ MatchesSum(m) =>
            /\ returned.state = "returned"
            /\ v.toolCall.name = "sum"
            /\ \E i \in 1..Len(m) :
                 /\ SumAt(m, i)
                 /\ v.toolCall.args = [num1 |-> Number(m[i]), num2 |-> Number(m[i + 2])]
                 /\ v.text = <<"Result: ", m[i], " + ", m[i + 2], " = ",
                               NumText(Number(m[i]) + Number(m[i + 2]))>>
       /\ (~MatchesSum(m) /\ MatchesPrime(m)) =>
            /\ returned.state = "returned"
            /\ v.toolCall.name = "check_prime_number"
            /\ \E i \in 1..Len(m) :
                 /\ IsNum(m[i]) /\ \A j \in 1..(i - 1) : ~IsNum(m[j])
                 /\ v.toolCall.args = [number |-> Number(m[i])]
                 /\ v.text = <<m[i], " is ",
                               IF Number(m[i]) >= 2 /\ NoDivisor(Number(m[i]))
                               THEN "" ELSE "not ",
                               "a prime number.">>
       /\ (~MatchesSum(m) /\ ~MatchesPrime(m) /\ MatchesPrice(m)) =>
            \/ returned.state = "threw"
            \/ /\ v.toolCall.name = "get_crypto_price"
               /\ v.toolCall.args = parseCoinForPrice(m)
       /\ (~MatchesSum(m) /\ ~MatchesPrime(m) /\ ~MatchesPrice(m)) =>
            /\ returned.state = "returned"
            /\ v.text = <<"Offline demo mode is active because GROQ_API_KEY is not set.">>
            /\ IsNull(v.toolCall)

\* a message with the sum pattern and the word "prime" got the sum result
C15_Witness ==
  /\ called.fn = "runOfflineDemo" /\ returned.state = "returned"
  /\ called.arg = <<"9", "+", "9", "prime">>
  /\ returned.value.toolCall.name = "sum"
  /\ returned.value.text = <<"Result: ", "9", " + ", "9", " = ", "18">>


\* C16: for every integer n of the range prime(n) is true exactly when
\* n >= 2 and no d with 2 <= d < n divides n; so it is false for every n < 2
\* and false for the squares 4, 9 and 25.
C16_PrimeIsPrimality ==
  (called.fn = "prime" /\ returned.state = "returned") =>
    LET n == called.arg
    IN /\ returned.value \in BOOLEAN
       /\ returned.value <=> (n >= 2 /\ NoDivisor(n))
       /\ n < 2 => ~returned.value
       /\ n \in {4, 9, 25} => ~returned.value
       /\ n \in {2, 3, 5, 7, 11, 13} => returned.value

\* prime(25) has returned false
C16_Witness ==
  /\ called.fn = "prime" /\ returned.state = "returned"
  /\ called.arg = 25
  /\ returned.value = FALSE


\* C17 as stated: while the tool of a request is being executed, and after
\* its execution has failed, the transcript holds the request's assistant
\* tool-request entry.
C17_Original ==
  \A r \in Reqs :
    (pc[r] = "tool" \/ err[r] = "tool execution") => Honoured(r) # {}

\* C17: the assistant tool-request entry is pushed only once the tool has
\* returned, together with the tool entry: while the tool is being executed
\* the transcript holds no tool-request entry of the request, and after a tool
\* call that could not be run or a tool that threw it holds none either, the
\* request having pushed its user entry only; once the tool has returned the
\* request has one tool-request entry and one tool entry.
C17_Amended ==
  \A r \in Reqs :
    LET asked == Honoured(r)
    IN /\ pc[r] = "tool" => asked = {}
       /\ err[r] \in ToolFailures =>
            /\ asked = {}
            /\ Cardinality(Pushed(r)) = 1
            /\ PushedAs(r, "user") = Pushed(r)
       /\ (requested[r] >= 1 /\ err[r] \notin ToolFailures
             /\ pc[r] \in {"second", "price", "done"}) =>
            /\ Cardinality(asked) = 1
            /\ Cardinality(PushedAs(r, "tool")) = 1

\* the tool of one request threw and the request is over without a
\* tool-request entry, while the tool of another request is being executed
C17_Witness ==
  \E r, q \in Reqs :
    /\ err[r] = "tool execution" /\ pc[r] = "done"
    /\ Honoured(r) = {} /\ Cardinality(Pushed(r)) = 1
    /\ pc[q] = "tool" /\ Honoured(q) = {}


\* runAgent returned for request r
Succeeded(r) == AgentOver(r) /\ pc[r] = "done" /\ err[r] = "none"

\* the final replies a request pushed: assistant entries without tool calls
Finals(r) ==
  {i \in 1..Len(History) :
     /\ owner[i] = r
     /\ History[i].role = "assistant" /\ History[i].tool_calls = << >>}

\* C18 as stated: every request for which runAgent returned has pushed exactly
\* one final assistant entry, whatever the content was.
C18_Original ==
  \A r \in Reqs : Succeeded(r) => Cardinality(Finals(r)) = 1

\* C18: a request for which runAgent returned has pushed exactly one final
\* assistant entry when the content the provider returned is not empty, and
\* none when it is empty or absent, on the path without a tool and on the tool
\* path; the entry carries the returned content and is the last the request
\* pushed.  A request for which runAgent threw has pushed none.
C18_Amended ==
  \A r \in Reqs :
    LET finals == Finals(r)
    IN /\ Cardinality(finals) <= 1
       /\ Succeeded(r) =>
            /\ res[r].status = 200
            /\ res[r].text = << >> => finals = {}
            /\ res[r].text # << >> =>
                 /\ Cardinality(finals) = 1
                 /\ \A i \in finals :
                      /\ History[i].content = res[r].text
                      /\ \A j \in (i + 1)..Len(History) : owner[j] # r
       /\ err[r] # "none" => finals = {}

\* runAgent returned an empty content on the path without a tool, and nothing
\* was pushed for it; it returned a content on the tool path, pushed once
C18_Witness ==
  \E r, q \in Reqs :
    /\ Succeeded(r) /\ requested[r] = 0 /\ res[r].text = << >> /\ Finals(r) = {}
    /\ Succeeded(q) /\ requested[q] >= 1 /\ res[q].text # << >>
    /\ Cardinality(Finals(q)) = 1


\* C19: when runAgent returned for a request, the toolCall of the response is
\* null exactly when no tool was executed for the request; when a tool was
\* executed, it is the name and the parsed arguments of that one tool call,
\* the call whose id the request's tool entry carries.
C19_ToolCallMetadata ==
  \A r \in Reqs :
    Succeeded(r) =>
      /\ IsNull(res[r].toolCall) <=> ran[r] = << >>
      /\ ran[r] = << >> <=> toolRuns[r] = 0
      /\ ran[r] = << >> => PushedAs(r, "tool") = {}
      /\ ran[r] # << >> =>
           /\ Len(ran[r]) = 1
           /\ res[r].toolCall = [name |-> ran[r][1].function.name,
                                 args |-> ran[r][1].function.arguments.value]
           /\ LET tools == PushedAs(r, "tool")
              IN /\ Cardinality(tools) = 1
                 /\ \A i \in tools : History[i].tool_call_id = ran[r][1].id

\* runAgent returned after the first of two requested tools was executed, and
\* the metadata names that tool; for another request it returned without a
\* tool and the metadata is null
C19_Witness ==
  \E r, q \in Reqs :
    /\ Succeeded(r) /\ requested[r] = 2
    /\ res[r].toolCall = [name |-> "get_crypto_price", args |-> [coin |-> "bitcoin"]]
    /\ Succeeded(q) /\ toolRuns[q] = 0 /\ IsNull(res[q].toolCall)


\* C20: in every transcript each tool entry comes right after the assistant
\* tool-request entry it answers: the entry before it was pushed by the same
\* request, carries tool calls, and its first call has the id the tool entry
\* carries; and each tool-request entry is followed at once by its tool entry.
\* No entry of another request stands between the two.
C20_ToolEntryAdjacent ==
  \A i \in 1..Len(History) :
    /\ History[i].role = "tool" =>
         /\ i > 1
         /\ IsToolRequest(History[i - 1])
         /\ owner[i - 1] = owner[i]
         /\ History[i - 1].tool_calls[1].id = History[i].tool_call_id
    /\ IsToolRequest(History[i]) =>
         /\ i < Len(History)
         /\ History[i + 1].role = "tool"
         /\ owner[i + 1] = owner[i]

\* two requests interleaved: the user entry of one stands right before the
\* tool request and the tool entry of the other, and its own tool is being
\* executed
C20_Witness ==
  \E r, q \in Reqs : \E i \in 3..Len(History) :
    /\ r # q
    /\ History[i].role = "tool" /\ owner[i] = r /\ owner[i - 1] = r
    /\ owner[i - 2] = q /\ History[i - 2].role = "user"
    /\ pc[q] = "tool"


\* request r has reached chatHandler
Received(r) == pc[r] # "idle"

\* C21: when every awaited call returns or fails, every request that reaches
\* chatHandler eventually has its response, and has exactly one: no request
\* ever has two responses, a handler is over exactly when its one response is
\* sent, the status of a response is 200, 400 or 500, a handler that has not
\* answered yet waits at an await from which it can resume, and a response
\* once sent is never replaced.
C21_ExactlyOneResponse ==
  /\ [](\A r \in Reqs :
          /\ sent[r] <= 1
          /\ sent[r] = 1 <=> pc[r] = "done"
          /\ sent[r] = 1 => res[r].status \in {200, 400, 500}
          /\ sent[r] = 0 => res[r] = NoResponse
          /\ (Received(r) /\ sent[r] = 0) =>
               (pc[r] \in {"first", "tool", "second", "price"} /\ ENABLED Resumes(r)))
  /\ [][\A r \in Reqs : sent[r] = 1 => (sent'[r] = 1 /\ res'[r] = res[r])]_vars
  /\ \A r \in Reqs : Received(r) ~> (sent[r] = 1 /\ pc[r] = "done")

\* runAgent and the fallback both failed for one request, answered 500, while
\* another request was handled in between and answered 200 after a failed
\* second round-trip: each has its one response
C21_Witness ==
  \E r, q \in Reqs :
    /\ r # q
    /\ pc[r] = "done" /\ sent[r] = 1 /\ res[r].status = 500
    /\ err[r] # "none" /\ quote[r].outcome = "threw"
    /\ pc[q] = "done" /\ sent[q] = 1 /\ res[q].status = 200
    /\ err[q] = "second round-trip"
    /\ \E i \in Pushed(q) : \E j \in Pushed(r) : \E k \in Pushed(q) : i < j /\ j < k

====
